---- MODULE Spec2Model ----
(***************************************************************************)
(* A model of src/bot.py: a Telegram sales bot with a course catalog, a    *)
(* per-user conversation (python-telegram-bot ConversationHandler), a      *)
(* relay between the users and one admin, usage statistics and a           *)
(* broadcast sweep.                                                        *)
(*                                                                         *)
(* Strings are sequences of tokens.  A token is a chunk of characters that *)
(* the code never looks inside: "x", "X", "talk", " ", "_", a decimal      *)
(* digit, the marker "(ID: ", ")" and the backquote.  The alphabet is chosen so that *)
(* no concatenation of tokens can be read as another one.                  *)
(***************************************************************************)
EXTENDS Integers, Sequences, FiniteSets, TLC

VARIABLES
    GLOBAL_COURSES, \* the in-memory catalog: a dict in insertion order
    coursesFile,    \* contents of courses.json
    BOT_STATS,      \* [total_users, course_views] in memory
    statsFile,      \* contents of bot_stats.json
    userFile,       \* lines of user_ids.txt (token sequences), <<>> = no file
    conv,           \* ConversationHandler state of each user
    user_data,      \* context.user_data['selected_course'] of each user
    adminChat,      \* the last message the relay delivered to the admin
    gotReply,       \* users who hold an "Admin replied:" message
    out,            \* the messages sent by the handler that ran last
    bc              \* the broadcast sweep in progress

vars == <<GLOBAL_COURSES, coursesFile, BOT_STATS, statsFile, userFile, conv,
          user_data, adminChat, gotReply, out, bc>>

----------------------------------------------------------------------------
(* Bounds of the model *)

MaxCourses == 2
MaxViews == 2

(* Configuration and conversation states *)

ADMIN_ID == 1
Customers == {2, 13}
Users == Customers \cup {ADMIN_ID}

SELECTING_ACTION == 0
FORWARD_TO_ADMIN == 1
FORWARD_SCREENSHOT == 2
END == -1
NoConversation == -2

----------------------------------------------------------------------------
(* Strings *)

\* the token of the backquote character
BQ == "[bq]"

DigitTok == <<"0", "1", "2", "3", "4", "5", "6", "7", "8", "9">>
DigitSet == {DigitTok[i] : i \in 1..10}
DigitVal(t) == CHOOSE i \in 0..9 : DigitTok[i + 1] = t

RECURSIVE Str(_)
\* str(n) of a non-negative integer
Str(n) == IF n < 10 THEN <<DigitTok[n + 1]>>
          ELSE Str(n \div 10) \o <<DigitTok[(n % 10) + 1]>>

\* str.lower() on one token
LowerTok(t) ==
    CASE t = "X" -> "x"
      [] t = "Talk" -> "talk"
      [] t = "Admin" -> "admin"
      [] t = "Available" -> "available"
      [] t = "COMING_SOON" -> "coming_soon"
      [] OTHER -> t

Lower(s) == [i \in 1..Len(s) |-> LowerTok(s[i])]

\* the tokens made of characters in [a-z0-9] only
SlugTokens == {"x", "y", "talk", "admin", "course", "buy", "main", "menu",
               "share", "screenshot"} \cup DigitSet

RECURSIVE Collapse(_, _)
\* re.sub(r'[^a-z0-9]+', '_', s): every maximal run of other tokens becomes "_"
Collapse(s, acc) ==
    IF s = <<>> THEN acc
    ELSE IF Head(s) \in SlugTokens THEN Collapse(Tail(s), Append(acc, Head(s)))
    ELSE IF acc # <<>> /\ acc[Len(acc)] = "_" THEN Collapse(Tail(s), acc)
    ELSE Collapse(Tail(s), Append(acc, "_"))

RECURSIVE StripL(_, _)
StripL(s, t) == IF s # <<>> /\ Head(s) = t THEN StripL(Tail(s), t) ELSE s

RECURSIVE StripR(_, _)
StripR(s, t) == IF s # <<>> /\ s[Len(s)] = t
                THEN StripR(SubSeq(s, 1, Len(s) - 1), t) ELSE s

\* str.strip(t)
Strip(s, t) == StripR(StripL(s, t), t)

\* re.sub(r'[^a-z0-9]+', '_', name.lower()).strip('_')
Slug(name) == Strip(Collapse(Lower(name), <<>>), "_")

RECURSIVE Remove(_, _)
\* s.replace(t, '')
Remove(s, t) == IF s = <<>> THEN <<>>
                ELSE IF Head(s) = t THEN Remove(Tail(s), t)
                ELSE <<Head(s)>> \o Remove(Tail(s), t)

RECURSIVE DigitsValue(_, _)
DigitsValue(s, acc) == IF s = <<>> THEN acc
                       ELSE DigitsValue(Tail(s), 10 * acc + DigitVal(Head(s)))

RECURSIVE WellFormedDigits(_)
\* digits, with single underscores allowed between digits
WellFormedDigits(s) ==
    /\ s # <<>>
    /\ Head(s) \in DigitSet
    /\ \/ Len(s) = 1
       \/ Len(s) > 1 /\ Head(Tail(s)) \in DigitSet /\ WellFormedDigits(Tail(s))
       \/ Len(s) > 2 /\ Head(Tail(s)) = "_" /\ WellFormedDigits(Tail(Tail(s)))

\* int(s): surrounding blanks stripped, an optional sign, then digits.
\* ok = FALSE stands for ValueError.
ParseInt(s) ==
    LET t == Strip(s, " ")
        signed == t # <<>> /\ Head(t) \in {"-", "+"}
        body == IF signed THEN Tail(t) ELSE t
        mag == DigitsValue(Remove(body, "_"), 0)
    IN  IF WellFormedDigits(body)
        THEN [ok |-> TRUE,
              val |-> IF signed /\ Head(t) = "-" THEN 0 - mag ELSE mag]
        ELSE [ok |-> FALSE, val |-> 0]

----------------------------------------------------------------------------
(* The catalog: a Python dict, kept as the sequence of its items *)

Keys(cat) == {cat[i].key : i \in 1..Len(cat)}

IndexOf(cat, key) == CHOOSE i \in 1..Len(cat) : cat[i].key = key

Course(name, price, status) ==
    [name |-> name, price |-> price, status |-> status]

Item(key, name, price, status) ==
    [key |-> key, name |-> name, price |-> price, status |-> status]

\* GLOBAL_COURSES[key]
Lookup(cat, key) == LET it == cat[IndexOf(cat, key)]
                    IN  Course(it.name, it.price, it.status)

\* a del that also drops every later item
DelItem_Truncate(cat, key) == SubSeq(cat, 1, IndexOf(cat, key) - 1)

\* del GLOBAL_COURSES[key]
DelItem(cat, key) ==
    LET i == IndexOf(cat, key)
    IN  SubSeq(cat, 1, i - 1) \o SubSeq(cat, i + 1, Len(cat))

\* an assignment that moves a present key to the end of the dict
SetItem_Reinsert(cat, key, name, price, status) ==
    Append(SelectSeq(cat, LAMBDA it : it.key # key),
           [key |-> key, name |-> name, price |-> price, status |-> status])

\* GLOBAL_COURSES[key] = {...}: a present key keeps its place
SetItem(cat, key, name, price, status) ==
    IF key \in Keys(cat)
    THEN [cat EXCEPT ![IndexOf(cat, key)] = Item(key, name, price, status)]
    ELSE Append(cat, Item(key, name, price, status))

Statuses == {<<"available">>, <<"coming_soon">>}

\* the status check of add_course and edit_course
ValidStatus(status) == status \in Statuses

\* a price check that forgets the sign
ValidPrice_NoSign(price) == price.ok

\* the try block around int(price_str): no ValueError and not negative
ValidPrice(price) == price.ok /\ price.val >= 0

RECURSIVE Probe(_, _, _)
\* the while loop of add_course: the first original_key_<counter> not taken
Probe(original_key, counter, keys) ==
    LET key == original_key \o <<"_">> \o Str(counter)
    IN  IF key \in keys THEN Probe(original_key, counter + 1, keys) ELSE key

\* a key taken from the name without the uniqueness loop
NewKey_NoLoop(name, cat) ==
    IF Slug(name) = <<>> THEN <<"course", "_">> \o Str(Len(cat) + 1)
    ELSE Slug(name)

\* the key add_course gives to a course called name
NewKey(name, cat) ==
    LET slug == Slug(name)
        original_key == IF slug = <<>>
                        THEN <<"course", "_">> \o Str(Len(cat) + 1)
                        ELSE slug
    IN  IF original_key \in Keys(cat)
        THEN Probe(original_key, 1, Keys(cat))
        ELSE original_key

----------------------------------------------------------------------------
(* Messages, sessions and files *)

Msg(to, kind, text, buttons) ==
    [to |-> to, kind |-> kind, text |-> text, buttons |-> buttons]

NoMsg == Msg(0, "none", <<>>, <<>>)

Reply(to, kind) == <<Msg(to, kind, <<>>, <<>>)>>

\* a message of the relay in the admin's chat, with the user it came from
Fwd(kind, text, from) == [kind |-> kind, text |-> text, from |-> from]

NoFwd == Fwd("none", <<>>, 0)

NoCourse == Course(<<>>, 0, <<>>)

\* context.user_data without 'selected_course'
NoSelection == [kind |-> "none", key |-> <<>>, course |-> NoCourse]

\* 'selected_course' is the very dict that GLOBAL_COURSES holds under key
Ref(key) == [kind |-> "ref", key |-> key, course |-> NoCourse]

\* 'selected_course' is a dict that GLOBAL_COURSES holds no more
Val(course) == [kind |-> "val", key |-> <<>>, course |-> course]

\* context.user_data.get('selected_course'), read through the reference
Selected(sel, cat) ==
    IF sel.kind = "ref" THEN Lookup(cat, sel.key) ELSE sel.course

\* the sessions after the dicts under keys left the catalog cat
Detach(ud, cat, keys) ==
    [u \in DOMAIN ud |->
        IF ud[u].kind = "ref" /\ ud[u].key \in keys
        THEN Val(Lookup(cat, ud[u].key)) ELSE ud[u]]

\* save_json_data: the file after the write, which may fail (w = FALSE)
save_json_data(file, data, w) == IF w THEN data ELSE file

\* load_json_data: the files exist from the start and hold what was dumped
load_json_data(file) == file

\* error_handler: the alert an uncaught exception sends to the admin
error_handler == Reply(ADMIN_ID, "error_alert")

NoBroadcast ==
    [active |-> FALSE, user_ids |-> <<>>, text |-> <<>>, i |-> 0,
     sent_count |-> 0, failed_count |-> 0, attempts |-> <<>>]

Init ==
    /\ GLOBAL_COURSES = <<>>
    /\ coursesFile = <<>>
    /\ BOT_STATS = [total_users |-> 0, course_views |-> <<>>]
    /\ statsFile = [total_users |-> 0, course_views |-> <<>>]
    /\ userFile = <<>>
    /\ conv = [u \in Users |-> NoConversation]
    /\ user_data = [u \in Users |-> NoSelection]
    /\ adminChat = NoFwd
    /\ gotReply = {}
    /\ out = <<>>
    /\ bc = NoBroadcast

----------------------------------------------------------------------------
(* Admin commands on the catalog *)

help_command(u) ==
    /\ ~bc.active
    /\ out' = Reply(u, "help_text")
    /\ UNCHANGED <<GLOBAL_COURSES, coursesFile, BOT_STATS, statsFile,
                   userFile, conv, user_data, adminChat, gotReply, bc>>

admin_panel(u) ==
    /\ ~bc.active
    /\ out' = IF u # ADMIN_ID THEN Reply(u, "not_authorized")
              ELSE Reply(u, "admin_help")
    /\ UNCHANGED <<GLOBAL_COURSES, coursesFile, BOT_STATS, statsFile,
                   userFile, conv, user_data, adminChat, gotReply, bc>>

list_courses(u) ==
    /\ ~bc.active
    /\ IF u # ADMIN_ID
       THEN /\ out' = Reply(u, "not_authorized")
            /\ UNCHANGED <<GLOBAL_COURSES, user_data>>
       ELSE LET loaded == load_json_data(coursesFile)
            IN  /\ GLOBAL_COURSES' = loaded
                /\ user_data' = Detach(user_data, GLOBAL_COURSES,
                                       Keys(GLOBAL_COURSES))
                /\ out' = IF loaded = <<>>
                          THEN Reply(u, "no_courses")
                          ELSE <<Msg(u, "courses_info", <<>>,
                                     [i \in 1..Len(loaded) |-> loaded[i].key])>>
    /\ UNCHANGED <<coursesFile, BOT_STATS, statsFile, userFile, conv,
                   adminChat, gotReply, bc>>

\* an add_course that confirms before it writes
add_course_ReplyFirst(u, parts, w) ==
    /\ ~bc.active
    /\ Len(GLOBAL_COURSES) < MaxCourses
    /\ IF u # ADMIN_ID
       THEN /\ out' = Reply(u, "not_authorized")
            /\ UNCHANGED <<GLOBAL_COURSES, coursesFile>>
       ELSE IF Len(parts) # 3
       THEN /\ out' = Reply(u, "usage_addcourse")
            /\ UNCHANGED <<GLOBAL_COURSES, coursesFile>>
       ELSE LET name == parts[1]
                price == ParseInt(parts[2])
                status == Lower(parts[3])
                key == NewKey(name, GLOBAL_COURSES)
                courses == SetItem(GLOBAL_COURSES, key, name, price.val, status)
            IN  IF ~ValidStatus(status)
                THEN /\ out' = Reply(u, "invalid_status")
                     /\ UNCHANGED <<GLOBAL_COURSES, coursesFile>>
                ELSE IF ~ValidPrice(price)
                THEN /\ out' = Reply(u, "invalid_price")
                     /\ UNCHANGED <<GLOBAL_COURSES, coursesFile>>
                ELSE /\ GLOBAL_COURSES' = courses
                     /\ coursesFile' = save_json_data(coursesFile, courses, w)
                     /\ out' = <<Msg(u, "added", name, <<key>>)>>
    /\ UNCHANGED <<BOT_STATS, statsFile, userFile, conv, user_data, adminChat,
                   gotReply, bc>>

add_course(u, parts, w) ==
    /\ ~bc.active
    /\ Len(GLOBAL_COURSES) < MaxCourses
    /\ IF u # ADMIN_ID
       THEN /\ out' = Reply(u, "not_authorized")
            /\ UNCHANGED <<GLOBAL_COURSES, coursesFile>>
       ELSE IF Len(parts) # 3
       THEN /\ out' = Reply(u, "usage_addcourse")
            /\ UNCHANGED <<GLOBAL_COURSES, coursesFile>>
       ELSE LET name == parts[1]
                price == ParseInt(parts[2])
                status == Lower(parts[3])
                key == NewKey(name, GLOBAL_COURSES)
                courses == SetItem(GLOBAL_COURSES, key, name, price.val, status)
            IN  IF ~ValidStatus(status)
                THEN /\ out' = Reply(u, "invalid_status")
                     /\ UNCHANGED <<GLOBAL_COURSES, coursesFile>>
                ELSE IF ~ValidPrice(price)
                THEN /\ out' = Reply(u, "invalid_price")
                     /\ UNCHANGED <<GLOBAL_COURSES, coursesFile>>
                ELSE /\ GLOBAL_COURSES' = courses
                     /\ coursesFile' = save_json_data(coursesFile, courses, w)
                     /\ out' = IF w THEN <<Msg(u, "added", name, <<key>>)>>
                               ELSE error_handler
    /\ UNCHANGED <<BOT_STATS, statsFile, userFile, conv, user_data, adminChat,
                   gotReply, bc>>

edit_course(u, parts, w) ==
    /\ ~bc.active
    /\ IF u # ADMIN_ID
       THEN /\ out' = Reply(u, "not_authorized")
            /\ UNCHANGED <<GLOBAL_COURSES, coursesFile>>
       ELSE IF Len(parts) # 4
       THEN /\ out' = Reply(u, "usage_editcourse")
            /\ UNCHANGED <<GLOBAL_COURSES, coursesFile>>
       ELSE LET course_key == parts[1]
                new_name == parts[2]
                new_price == ParseInt(parts[3])
                new_status == Lower(parts[4])
                courses == SetItem(GLOBAL_COURSES, course_key, new_name,
                                   new_price.val, new_status)
            IN  IF course_key \notin Keys(GLOBAL_COURSES)
                THEN /\ out' = <<Msg(u, "not_found", <<>>, <<course_key>>)>>
                     /\ UNCHANGED <<GLOBAL_COURSES, coursesFile>>
                ELSE IF ~ValidStatus(new_status)
                THEN /\ out' = Reply(u, "invalid_status")
                     /\ UNCHANGED <<GLOBAL_COURSES, coursesFile>>
                ELSE IF ~ValidPrice(new_price)
                THEN /\ out' = Reply(u, "invalid_price")
                     /\ UNCHANGED <<GLOBAL_COURSES, coursesFile>>
                ELSE /\ GLOBAL_COURSES' = courses
                     /\ coursesFile' = save_json_data(coursesFile, courses, w)
                     /\ out' = IF w THEN <<Msg(u, "updated", <<>>, <<course_key>>)>>
                               ELSE error_handler
    /\ UNCHANGED <<BOT_STATS, statsFile, userFile, conv, user_data, adminChat,
                   gotReply, bc>>

delete_course(u, args, w) ==
    /\ ~bc.active
    /\ IF u # ADMIN_ID
       THEN /\ out' = Reply(u, "not_authorized")
            /\ UNCHANGED <<GLOBAL_COURSES, coursesFile, user_data>>
       ELSE IF Len(args) # 1
       THEN /\ out' = Reply(u, "usage_delcourse")
            /\ UNCHANGED <<GLOBAL_COURSES, coursesFile, user_data>>
       ELSE LET course_key == Lower(args[1])
                courses == DelItem(GLOBAL_COURSES, course_key)
            IN  IF course_key \notin Keys(GLOBAL_COURSES)
                THEN /\ out' = <<Msg(u, "not_found", <<>>, <<course_key>>)>>
                     /\ UNCHANGED <<GLOBAL_COURSES, coursesFile, user_data>>
                ELSE /\ GLOBAL_COURSES' = courses
                     /\ user_data' = Detach(user_data, GLOBAL_COURSES,
                                            {course_key})
                     /\ coursesFile' = save_json_data(coursesFile, courses, w)
                     /\ out' = IF w THEN <<Msg(u, "deleted", <<>>, <<course_key>>)>>
                               ELSE error_handler
    /\ UNCHANGED <<BOT_STATS, statsFile, userFile, conv, adminChat, gotReply,
                   bc>>

----------------------------------------------------------------------------
(* Statistics and the roster *)

Range(f) == {f[i] : i \in DOMAIN f}

\* BOT_STATS['course_views'].get(key, 0)
Views(stats, key) ==
    IF key \in DOMAIN stats.course_views THEN stats.course_views[key] ELSE 0

\* an assignment that starts the dict of views afresh
SetViews_Fresh(stats, key, n) ==
    [stats EXCEPT !.course_views = [k \in {key} |-> n]]

\* BOT_STATS['course_views'][key] = n
SetViews(stats, key, n) ==
    [stats EXCEPT !.course_views =
        [k \in (DOMAIN stats.course_views) \cup {key} |->
            IF k = key THEN n ELSE stats.course_views[k]]]

\* the users who opened a chat with the bot: Telegram delivers to no others
Started(u) == Str(u) \in Range(userFile)

\* a save_user_id that counts every start
save_user_id_CountAll(user_id, w) ==
    LET stats == [BOT_STATS EXCEPT !.total_users = @ + 1]
    IN  /\ userFile' = IF Str(user_id) \notin Range(userFile)
                       THEN Append(userFile, Str(user_id)) ELSE userFile
        /\ BOT_STATS' = stats
        /\ statsFile' = save_json_data(statsFile, stats, w)

\* a save_user_id without the membership test
save_user_id_NoTest(user_id, w) ==
    /\ userFile' = Append(userFile, Str(user_id))
    /\ BOT_STATS' = [BOT_STATS EXCEPT !.total_users = Len(userFile) + 1]
    /\ statsFile' = save_json_data(statsFile, BOT_STATS', w)

\* save_user_id: the roster file and the statistics after user_id started
save_user_id(user_id, w) ==
    LET user_ids == userFile
        stats == [BOT_STATS EXCEPT !.total_users = Len(user_ids) + 1]
    IN  IF Str(user_id) \notin Range(user_ids)
        THEN /\ userFile' = Append(user_ids, Str(user_id))
             /\ BOT_STATS' = stats
             /\ statsFile' = save_json_data(statsFile, stats, w)
        ELSE UNCHANGED <<userFile, BOT_STATS, statsFile>>

show_stats(u) ==
    /\ ~bc.active
    /\ IF u # ADMIN_ID
       THEN /\ out' = Reply(u, "not_authorized")
            /\ UNCHANGED BOT_STATS
       ELSE /\ BOT_STATS' = load_json_data(statsFile)
            /\ out' = Reply(u, "stats_text")
    /\ UNCHANGED <<GLOBAL_COURSES, coursesFile, statsFile, userFile, conv,
                   user_data, adminChat, gotReply, bc>>

----------------------------------------------------------------------------
(* The conversation *)

talk_admin == <<"talk", "_", "admin">>
buy_course == <<"buy", "_", "course">>
share_screenshot == <<"share", "_", "screenshot">>
main_menu_data == <<"main", "_", "menu">>

\* a keyboard of the courses on sale only
Keyboard_Available(cat) ==
    LET available == SelectSeq(cat, LAMBDA c : c.status = <<"available">>)
    IN  [i \in 1..Len(available) |-> available[i].key]

\* the keyboard of start, main_menu and main_menu_from_message: the
\* callback_data of one button per course, in the order of the dict
Keyboard(cat) == [i \in 1..Len(cat) |-> cat[i].key]

start(u, w) ==
    /\ ~bc.active
    /\ save_user_id(u, w)
    /\ IF w \/ Started(u)
       THEN /\ out' = <<Msg(u, "welcome", <<>>, Keyboard(GLOBAL_COURSES))>>
            /\ conv' = [conv EXCEPT ![u] = SELECTING_ACTION]
       ELSE /\ out' = error_handler
            /\ UNCHANGED conv
    /\ UNCHANGED <<GLOBAL_COURSES, coursesFile, user_data, adminChat,
                   gotReply, bc>>

\* a callback that counts the view before it looks the key up
course_selection_callback_CountFirst(u, course_key, w) ==
    LET stats == SetViews(BOT_STATS, course_key,
                          Views(BOT_STATS, course_key) + 1)
    IN  /\ Views(BOT_STATS, course_key) < MaxViews
        /\ BOT_STATS' = stats
        /\ statsFile' = save_json_data(statsFile, stats, w)
        /\ IF course_key \in Keys(GLOBAL_COURSES)
           THEN /\ user_data' = [user_data EXCEPT ![u] = Ref(course_key)]
                /\ out' = <<Msg(u, "course_details",
                                Lookup(GLOBAL_COURSES, course_key).name,
                                <<talk_admin, buy_course, main_menu_data>>)>>
           ELSE /\ out' = <<>>
                /\ UNCHANGED user_data
        /\ UNCHANGED <<GLOBAL_COURSES, coursesFile, userFile, conv,
                       adminChat, gotReply, bc>>

\* a callback that keeps the selected course in one place for all users
course_selection_callback_Shared(u, course_key, w) ==
    IF course_key \in Keys(GLOBAL_COURSES)
    THEN LET course == Lookup(GLOBAL_COURSES, course_key)
             stats == SetViews(BOT_STATS, course_key,
                               Views(BOT_STATS, course_key) + 1)
         IN  /\ Views(BOT_STATS, course_key) < MaxViews
             /\ user_data' = [v \in DOMAIN user_data |-> Ref(course_key)]
             /\ BOT_STATS' = stats
             /\ statsFile' = save_json_data(statsFile, stats, w)
             /\ out' = IF ~w THEN error_handler
                       ELSE IF course.status = <<"coming_soon">>
                       THEN <<Msg(u, "launching_soon", course.name,
                                  <<main_menu_data>>)>>
                       ELSE <<Msg(u, "course_details", course.name,
                                  <<talk_admin, buy_course, main_menu_data>>)>>
             /\ UNCHANGED <<GLOBAL_COURSES, coursesFile, userFile, conv,
                            adminChat, gotReply, bc>>
    ELSE /\ out' = <<>>
         /\ UNCHANGED <<GLOBAL_COURSES, coursesFile, BOT_STATS, statsFile,
                        userFile, conv, user_data, adminChat, gotReply, bc>>

course_selection_callback(u, course_key, w) ==
    IF course_key \in Keys(GLOBAL_COURSES)
    THEN LET course == Lookup(GLOBAL_COURSES, course_key)
             stats == SetViews(BOT_STATS, course_key,
                               Views(BOT_STATS, course_key) + 1)
         IN  /\ Views(BOT_STATS, course_key) < MaxViews
             /\ user_data' = [user_data EXCEPT ![u] = Ref(course_key)]
             /\ BOT_STATS' = stats
             /\ statsFile' = save_json_data(statsFile, stats, w)
             /\ out' = IF ~w THEN error_handler
                       ELSE IF course.status = <<"coming_soon">>
                       THEN <<Msg(u, "launching_soon", course.name,
                                  <<main_menu_data>>)>>
                       ELSE <<Msg(u, "course_details", course.name,
                                  <<talk_admin, buy_course, main_menu_data>>)>>
             /\ UNCHANGED <<GLOBAL_COURSES, coursesFile, userFile, conv,
                            adminChat, gotReply, bc>>
    ELSE /\ out' = <<>>
         /\ UNCHANGED <<GLOBAL_COURSES, coursesFile, BOT_STATS, statsFile,
                        userFile, conv, user_data, adminChat, gotReply, bc>>

main_menu(u) ==
    /\ out' = <<Msg(u, "select_course", <<>>, Keyboard(GLOBAL_COURSES))>>
    /\ conv' = [conv EXCEPT ![u] = SELECTING_ACTION]
    /\ UNCHANGED <<GLOBAL_COURSES, coursesFile, BOT_STATS, statsFile,
                   userFile, user_data, adminChat, gotReply, bc>>

\* the first key whose course has this name, "main_menu" when there is none
course_key_from_name(cat, course_name) ==
    IF \E i \in 1..Len(cat) : cat[i].name = course_name
    THEN cat[CHOOSE i \in 1..Len(cat) :
                /\ cat[i].name = course_name
                /\ \A j \in 1..(i - 1) : cat[j].name # course_name].key
    ELSE main_menu_data

\* a handle_action that does not look for the selected course
handle_action_NoTest(u, action) ==
    /\ IF action = talk_admin
       THEN /\ out' = Reply(u, "type_your_message")
            /\ conv' = [conv EXCEPT ![u] = FORWARD_TO_ADMIN]
       ELSE IF action = buy_course
       THEN LET course == Selected(user_data[u], GLOBAL_COURSES)
            IN  /\ out' = <<Msg(u, "buy_text", course.name,
                                <<share_screenshot,
                                  course_key_from_name(GLOBAL_COURSES,
                                                       course.name)>>)>>
                /\ conv' = [conv EXCEPT ![u] = SELECTING_ACTION]
       ELSE /\ out' = Reply(u, "send_screenshot")
            /\ conv' = [conv EXCEPT ![u] = FORWARD_SCREENSHOT]
    /\ UNCHANGED <<GLOBAL_COURSES, coursesFile, BOT_STATS, statsFile,
                   userFile, user_data, adminChat, gotReply, bc>>

handle_action(u, action) ==
    /\ IF user_data[u].kind = "none"
       THEN /\ out' = Reply(u, "start_over")
            /\ conv' = [conv EXCEPT ![u] = END]
       ELSE IF action = talk_admin
       THEN /\ out' = Reply(u, "type_your_message")
            /\ conv' = [conv EXCEPT ![u] = FORWARD_TO_ADMIN]
       ELSE IF action = buy_course
       THEN LET course == Selected(user_data[u], GLOBAL_COURSES)
            IN  /\ out' = <<Msg(u, "buy_text", course.name,
                                <<share_screenshot,
                                  course_key_from_name(GLOBAL_COURSES,
                                                       course.name)>>)>>
                /\ conv' = [conv EXCEPT ![u] = SELECTING_ACTION]
       ELSE /\ out' = Reply(u, "send_screenshot")
            /\ conv' = [conv EXCEPT ![u] = FORWARD_SCREENSHOT]
    /\ UNCHANGED <<GLOBAL_COURSES, coursesFile, BOT_STATS, statsFile,
                   userFile, user_data, adminChat, gotReply, bc>>

\* the name both forwards put in the message: the selected course's, or the
\* default of user_data.get
CourseName(u) ==
    IF user_data[u].kind = "none" THEN <<"Not specified">>
    ELSE Selected(user_data[u], GLOBAL_COURSES).name

\* the text forward_to_admin sends to the admin
forward_text(u, first_name, last_name, course_name, text) ==
    <<"New message from user: ">> \o first_name \o <<" ">> \o last_name
        \o <<" ", "(ID: ">> \o Str(u) \o <<")", "\nRegarding course: ">>
        \o course_name \o <<"\n\nMessage:\n">> \o text

\* a caption that leaves the course out
caption_NoCourse(u, first_name, last_name, course_name) ==
    <<"New payment screenshot from: ">> \o first_name \o <<" ">> \o last_name
        \o <<" ", "(ID: ", BQ>> \o Str(u) \o <<BQ, ")", "\nFor course: **">>
        \o <<"**\n\nReply to this message">>

\* the caption forward_screenshot_to_admin sends with the photo
caption(u, first_name, last_name, course_name) ==
    <<"New payment screenshot from: ">> \o first_name \o <<" ">> \o last_name
        \o <<" ", "(ID: ", BQ>> \o Str(u) \o <<BQ, ")", "\nFor course: **">>
        \o course_name \o <<"**\n\nReply to this message">>

\* a follow-up text without the marker of the id
followup_text_NoId(u, first_name, text) ==
    <<"Follow-up message from ">> \o first_name \o <<":\n\n">> \o text

\* the text handle_user_reply sends to the admin
followup_text(u, first_name, text) ==
    <<"Follow-up message from ">> \o first_name \o <<" ", "(ID: ">>
        \o Str(u) \o <<")", ":\n\n">> \o text

\* main_menu_from_message, after a message went to the admin
Forwarded(u, kind, text, confirmation) ==
    /\ adminChat' = Fwd(kind, text, u)
    /\ out' = <<Msg(ADMIN_ID, kind, text, <<>>),
                Msg(u, confirmation, <<>>, <<>>),
                Msg(u, "select_another", <<>>, Keyboard(GLOBAL_COURSES))>>
    /\ conv' = [conv EXCEPT ![u] = SELECTING_ACTION]
    /\ UNCHANGED <<GLOBAL_COURSES, coursesFile, BOT_STATS, statsFile,
                   userFile, user_data, gotReply, bc>>

forward_to_admin(u, first_name, last_name, text) ==
    Forwarded(u, "text",
              forward_text(u, first_name, last_name, CourseName(u), text),
              "message_sent")

forward_screenshot_to_admin(u, first_name, last_name) ==
    Forwarded(u, "photo", caption(u, first_name, last_name, CourseName(u)),
              "screenshot_received")

----------------------------------------------------------------------------
(* The relay between the admin and the users *)

RECURSIVE Before(_, _)
\* s.split(t)[0]
Before(s, t) == IF s = <<>> \/ Head(s) = t THEN <<>>
                ELSE <<Head(s)>> \o Before(Tail(s), t)

RECURSIVE After(_, _)
\* what follows the first t in s
After(s, t) == IF s = <<>> THEN <<>>
               ELSE IF Head(s) = t THEN Tail(s) ELSE After(Tail(s), t)

\* original_msg_text.split("(ID: ")[1].split(")")[0].replace(BQ, '')
user_id_str(text) ==
    Remove(Before(Before(After(text, "(ID: "), "(ID: "), ")"), BQ)

reply_to_user(original_msg_text, text) ==
    /\ IF "(ID: " \notin Range(original_msg_text)
       THEN /\ out' = Reply(ADMIN_ID, "action_failed")
            /\ UNCHANGED gotReply
       ELSE LET user_id == ParseInt(user_id_str(original_msg_text))
            IN  IF ~user_id.ok
                THEN /\ out' = Reply(ADMIN_ID, "no_valid_user_id")
                     /\ UNCHANGED gotReply
                ELSE IF user_id.val \in Users /\ Started(user_id.val)
                THEN /\ out' = <<Msg(user_id.val, "admin_replied", text, <<>>),
                                 Msg(ADMIN_ID, "reply_sent", <<>>, <<>>)>>
                     /\ gotReply' = gotReply \cup {user_id.val}
                ELSE /\ out' = error_handler
                     /\ UNCHANGED gotReply
    /\ UNCHANGED <<GLOBAL_COURSES, coursesFile, BOT_STATS, statsFile,
                   userFile, conv, user_data, adminChat, bc>>

\* replied: the message replied to is one of the bot's with "Admin replied:"
handle_user_reply(u, first_name, replied, text) ==
    IF replied
    THEN LET forward == followup_text(u, first_name, text)
         IN  /\ adminChat' = Fwd("followup", forward, u)
             /\ out' = <<Msg(ADMIN_ID, "followup", forward, <<>>),
                         Msg(u, "reply_sent_to_admin", <<>>, <<>>)>>
             /\ UNCHANGED <<GLOBAL_COURSES, coursesFile, BOT_STATS,
                            statsFile, userFile, conv, user_data, gotReply,
                            bc>>
    ELSE /\ out' = <<>>
         /\ UNCHANGED <<GLOBAL_COURSES, coursesFile, BOT_STATS, statsFile,
                        userFile, conv, user_data, adminChat, gotReply, bc>>

----------------------------------------------------------------------------
(* The dispatcher: main() registers the handlers, the first match runs *)

\* pattern "^[^_].*$"
course_pattern(data) == data # <<>> /\ data[1] # "_"

\* pattern "^talk_admin$|^buy_course$|^share_screenshot$"
action_pattern(data) == data \in {talk_admin, buy_course, share_screenshot}

\* pattern "^main_menu$"
menu_pattern(data) == data = main_menu_data

Ignored == UNCHANGED vars

\* a button press: the handlers of the state SELECTING_ACTION, in their order
CallbackQuery(u, data, w) ==
    /\ ~bc.active
    /\ Started(u)
    /\ IF conv[u] # SELECTING_ACTION THEN Ignored
       ELSE IF course_pattern(data) THEN course_selection_callback(u, data, w)
       ELSE IF action_pattern(data) THEN handle_action(u, data)
       ELSE IF menu_pattern(data) THEN main_menu(u)
       ELSE Ignored

\* a text message that is no command and no reply
TextMessage(u, first_name, last_name, text) ==
    /\ ~bc.active
    /\ Started(u)
    /\ IF conv[u] = FORWARD_TO_ADMIN
       THEN forward_to_admin(u, first_name, last_name, text)
       ELSE Ignored

\* a photo that both awaiting states take
PhotoMessage_AnyState(u, first_name, last_name) ==
    /\ ~bc.active
    /\ Started(u)
    /\ IF conv[u] \in {FORWARD_TO_ADMIN, FORWARD_SCREENSHOT}
       THEN forward_screenshot_to_admin(u, first_name, last_name)
       ELSE Ignored

\* a photo that is no reply
PhotoMessage(u, first_name, last_name) ==
    /\ ~bc.active
    /\ Started(u)
    /\ IF conv[u] = FORWARD_SCREENSHOT
       THEN forward_screenshot_to_admin(u, first_name, last_name)
       ELSE Ignored

\* a text message of a user other than the admin that replies to a message
\* of the bot; replied: that message is an "Admin replied:" one
UserReply(u, first_name, last_name, replied, text) ==
    /\ ~bc.active
    /\ Started(u)
    /\ u # ADMIN_ID
    /\ replied => u \in gotReply
    /\ IF conv[u] = FORWARD_TO_ADMIN
       THEN forward_to_admin(u, first_name, last_name, text)
       ELSE handle_user_reply(u, first_name, replied, text)

\* a text message of the admin that replies to a message with this text
AdminReply(original_msg_text, text) ==
    /\ ~bc.active
    /\ IF conv[ADMIN_ID] = FORWARD_TO_ADMIN
       THEN forward_to_admin(ADMIN_ID, <<"Admin">>, <<>>, text)
       ELSE reply_to_user(original_msg_text, text)

----------------------------------------------------------------------------
(* The broadcast sweep *)

\* a broadcast that any user may start
broadcast_NoAuth(u, message_to_broadcast) ==
    /\ ~bc.active
    /\ IF message_to_broadcast = <<>>
       THEN out' = Reply(u, "usage_broadcast") /\ UNCHANGED bc
       ELSE IF userFile = <<>>
       THEN out' = Reply(u, "no_user_file") /\ UNCHANGED bc
       ELSE /\ bc' = [active |-> TRUE, user_ids |-> userFile,
                      text |-> message_to_broadcast, i |-> 1,
                      sent_count |-> 0, failed_count |-> 0,
                      attempts |-> <<>>]
            /\ out' = <<>>
    /\ UNCHANGED <<GLOBAL_COURSES, coursesFile, BOT_STATS, statsFile,
                   userFile, conv, user_data, adminChat, gotReply>>

broadcast(u, message_to_broadcast) ==
    /\ ~bc.active
    /\ IF u # ADMIN_ID
       THEN out' = Reply(u, "not_authorized") /\ UNCHANGED bc
       ELSE IF message_to_broadcast = <<>>
       THEN out' = Reply(u, "usage_broadcast") /\ UNCHANGED bc
       ELSE IF userFile = <<>>
       THEN out' = Reply(u, "no_user_file") /\ UNCHANGED bc
       ELSE /\ bc' = [active |-> TRUE, user_ids |-> userFile,
                      text |-> message_to_broadcast, i |-> 1,
                      sent_count |-> 0, failed_count |-> 0,
                      attempts |-> <<>>]
            /\ out' = <<>>
    /\ UNCHANGED <<GLOBAL_COURSES, coursesFile, BOT_STATS, statsFile,
                   userFile, conv, user_data, adminChat, gotReply>>

\* a loop that a failed send ends
broadcast_send_Break(delivered) ==
    /\ bc.active
    /\ bc.i <= Len(bc.user_ids)
    /\ bc' = IF delivered
             THEN [bc EXCEPT !.i = @ + 1, !.sent_count = @ + 1,
                      !.attempts = Append(@, [user_id |-> bc.user_ids[bc.i],
                                              sent |-> TRUE])]
             ELSE [bc EXCEPT !.i = Len(bc.user_ids) + 1,
                      !.failed_count = @ + 1,
                      !.attempts = Append(@, [user_id |-> bc.user_ids[bc.i],
                                              sent |-> FALSE])]
    /\ out' = IF delivered
              THEN Append(out, Msg(ParseInt(bc.user_ids[bc.i]).val,
                                   "broadcast", bc.text, <<>>))
              ELSE out
    /\ UNCHANGED <<GLOBAL_COURSES, coursesFile, BOT_STATS, statsFile,
                   userFile, conv, user_data, adminChat, gotReply>>

\* one turn of the for loop: delivered tells whether send_message returned
broadcast_send(delivered) ==
    /\ bc.active
    /\ bc.i <= Len(bc.user_ids)
    /\ LET user_id == ParseInt(bc.user_ids[bc.i])
           sent == user_id.ok /\ delivered
       IN  /\ bc' = [bc EXCEPT
                        !.i = @ + 1,
                        !.sent_count = IF sent THEN @ + 1 ELSE @,
                        !.failed_count = IF sent THEN @ ELSE @ + 1,
                        !.attempts = Append(@, [user_id |-> bc.user_ids[bc.i],
                                                sent |-> sent])]
           /\ out' = IF sent
                     THEN Append(out, Msg(user_id.val, "broadcast", bc.text,
                                          <<>>))
                     ELSE out
    /\ UNCHANGED <<GLOBAL_COURSES, coursesFile, BOT_STATS, statsFile,
                   userFile, conv, user_data, adminChat, gotReply>>

\* the report after the loop
broadcast_finished ==
    /\ bc.active
    /\ bc.i > Len(bc.user_ids)
    /\ out' = <<Msg(ADMIN_ID, "broadcast_finished",
                    Str(bc.sent_count) \o <<"/">> \o Str(bc.failed_count),
                    <<>>)>>
    /\ bc' = NoBroadcast
    /\ UNCHANGED <<GLOBAL_COURSES, coursesFile, BOT_STATS, statsFile,
                   userFile, conv, user_data, adminChat, gotReply>>

----------------------------------------------------------------------------
(* The admin at the catalog commands alone *)

CatalogNames == {<<"X", " ", "!", "x", "!">>, <<"!">>}
GoodPrices == {<<"1", "0">>}
BadPrices == {<<"-", "5">>, <<"x">>}
GoodStatuses == {<<"available">>, <<"COMING_SOON">>}
BadStatuses == {<<"bogus">>}
Reliable == {TRUE}
AnyName == <<"!">>
KeyArgs(cat) == Keys(cat) \cup {<<"X", "_", "x">>}

\* the fields after the command: every valid triple, and one fault at a time
Fields(names) ==
    {<<n, p, s>> : n \in names, p \in GoodPrices, s \in GoodStatuses}
        \cup {<<AnyName, p, <<"available">> >> : p \in BadPrices}
        \cup {<<AnyName, p, s>> : p \in GoodPrices, s \in BadStatuses}

AbsentKey == <<"X", "_", "x">>

AddParts(names) == Fields(names) \cup {<<AnyName, <<"1", "0">> >>}
EditParts(cat) ==
    {<<k>> \o f : k \in Keys(cat), f \in Fields({AnyName})}
        \cup {<<AbsentKey, AnyName, <<"1", "0">>, <<"available">> >>,
              <<AbsentKey, AnyName, <<"1", "0">> >>}
DelArgs(cat) ==
    {<<k>> : k \in KeyArgs(cat)} \cup {<<>>, <<AbsentKey, AbsentKey>>}

CatalogCommand(senders, names, writes) ==
    \/ \E u \in senders : list_courses(u)
    \/ \E u \in senders, parts \in AddParts(names), w \in writes :
          add_course(u, parts, w)
    \/ \E u \in senders, parts \in EditParts(GLOBAL_COURSES),
          w \in writes : edit_course(u, parts, w)
    \/ \E u \in senders, args \in DelArgs(GLOBAL_COURSES), w \in writes :
          delete_course(u, args, w)

NextCatalog == CatalogCommand({ADMIN_ID}, CatalogNames, Reliable)

SpecCatalog == Init /\ [][NextCatalog]_vars

----------------------------------------------------------------------------
(* One customer in the conversation while the admin keeps the catalog *)

Shoppers == {13}
ShopNames == {<<"X">>}
FirstNames == {<<"Ann">>, <<"(ID: ", "2", ")">>, <<"(ID: ", "x", ")">>}
LastNames == {<<>>}
UserTexts == {<<"hello">>}

\* the callback_data a client may send back: the buttons of any keyboard
\* the bot has shown, among them keys that have left the catalog since
Buttons == {<<"x">>, <<"x", "_", "1">>, talk_admin, buy_course,
            share_screenshot, main_menu_data}

Conversation(users, writes) ==
    \/ \E u \in users, w \in writes : start(u, w)
    \/ \E u \in users, data \in Buttons, w \in writes :
          CallbackQuery(u, data, w)
    \/ \E u \in users, f \in FirstNames, l \in LastNames, t \in UserTexts :
          TextMessage(u, f, l, t)
    \/ \E u \in users, f \in FirstNames, l \in LastNames :
          PhotoMessage(u, f, l)

\* the admin's commands while the shop is open: the well-formed ones
ShopFields ==
    {<<n, p, s>> : n \in ShopNames, p \in GoodPrices, s \in GoodStatuses}

Shop ==
    \/ list_courses(ADMIN_ID)
    \/ \E parts \in ShopFields : add_course(ADMIN_ID, parts, TRUE)
    \/ \E k \in Keys(GLOBAL_COURSES), f \in ShopFields :
          edit_course(ADMIN_ID, <<k>> \o f, TRUE)
    \/ \E k \in Keys(GLOBAL_COURSES) : delete_course(ADMIN_ID, <<k>>, TRUE)
    \/ show_stats(ADMIN_ID)

Next ==
    \/ Conversation(Shoppers, Reliable)
    \/ Shop

Spec == Init /\ [][Next]_vars

----------------------------------------------------------------------------
(* The relay: users who started, the admin's replies and the follow-ups *)

\* what the admin may reply to: the relay's last message, or a text of the
\* admin's own
AdminTexts == {<<"see ", "(ID: ", "1", "3", ")">>, <<"note">>}
Originals == {adminChat.text} \cup AdminTexts
ReplyTexts == {<<"ok">>}

Relay(users) ==
    \/ \E o \in Originals, t \in ReplyTexts : AdminReply(o, t)
    \/ \E u \in users, f \in FirstNames, l \in LastNames, r \in BOOLEAN,
          t \in UserTexts : UserReply(u, f, l, r, t)

NextRelay ==
    \/ \E u \in Customers : start(u, TRUE)
    \/ Relay(Customers)

SpecRelay == Init /\ [][NextRelay]_vars

----------------------------------------------------------------------------
(* The roster: every user may start, the admin broadcasts *)

BroadcastTexts == {<<"news">>, <<>>}

NextRoster ==
    \/ \E u \in Users : start(u, TRUE)
    \/ show_stats(ADMIN_ID)
    \/ \E t \in BroadcastTexts : broadcast(ADMIN_ID, t)
    \/ \E d \in BOOLEAN : broadcast_send(d)
    \/ broadcast_finished

SpecRoster == Init /\ [][NextRoster]_vars

----------------------------------------------------------------------------
(* Properties of the catalog commands, checked under SpecCatalog *)

PriceOf(p) == 10
StatusOf(s) == IF s = <<"available">> THEN s ELSE <<"coming_soon">>

Failures == {"usage_addcourse", "usage_editcourse", "usage_delcourse",
             "invalid_status", "invalid_price", "not_found"}

ValidAddParts ==
    {parts \in AddParts(CatalogNames) :
        Len(parts) = 3 /\ parts[2] \in GoodPrices /\ parts[3] \in GoodStatuses}

\* the key of a name, were it a function of the name alone: the key the
\* name gets in the empty catalog
KeyOfNameAlone(name) ==
    IF Slug(name) = <<>> THEN <<"course", "_", "1">> ELSE Slug(name)

\* the key of a name in a catalog: the slug of the name, or course_<size+1>
\* when the slug is empty, and when that is taken, with the least counter
\* from 1 that makes it free
KeyOfNameIn(name, cat) ==
    LET base == IF Slug(name) = <<>>
                THEN <<"course", "_">> \o Str(Len(cat) + 1) ELSE Slug(name)
        Free(c) == (base \o <<"_">> \o Str(c)) \notin Keys(cat)
        least == CHOOSE c \in 1..(Len(cat) + 1) :
                    Free(c) /\ \A d \in 1..(c - 1) : ~Free(d)
    IN  IF base \notin Keys(cat) THEN base ELSE base \o <<"_">> \o Str(least)

AddedExactly(parts, k) ==
    /\ k \notin Keys(GLOBAL_COURSES)
    /\ GLOBAL_COURSES' = Append(GLOBAL_COURSES,
            Item(k, parts[1], PriceOf(parts[2]), StatusOf(parts[3])))

\* C2 as stated: for every catalog and every valid (name, price >= 0, status),
\* add_course produces a key that is not among the existing keys and is
\* determined by the name alone, and the catalog afterwards is the previous
\* one plus exactly one entry {name, price, status} under that key.
C2_KeyByNameAlone ==
    [][\A parts \in ValidAddParts :
          add_course(ADMIN_ID, parts, TRUE)
              => AddedExactly(parts, KeyOfNameAlone(parts[1]))]_vars

\* C2 amended: the key is not among the existing keys and is determined by
\* the name together with the existing catalog (slug of the name, or
\* course_<size+1>, with the least free counter suffix on a collision), and
\* the catalog afterwards is the previous one plus exactly that one entry.
C2_AddCourse ==
    [][\A parts \in ValidAddParts :
          add_course(ADMIN_ID, parts, TRUE)
              => AddedExactly(parts, KeyOfNameIn(parts[1], GLOBAL_COURSES))]_vars

\* an add whose slug was taken: the second "X !x!" became x_x_1 beside x_x
C2_Witness ==
    /\ out = <<Msg(ADMIN_ID, "added", <<"X", " ", "!", "x", "!">>,
                   << <<"x", "_", "x", "_", "1">> >>)>>
    /\ Keys(GLOBAL_COURSES) = {<<"x", "_", "x">>, <<"x", "_", "x", "_", "1">>}

\* C3: edit_course on a present key leaves the keys (and their order) as they
\* were and changes nothing but that one entry; on an absent key it leaves
\* the catalog unchanged and reports failure to the admin.
C3_EditCourse ==
    [][\A parts \in EditParts(GLOBAL_COURSES) :
          (Len(parts) = 4 /\ edit_course(ADMIN_ID, parts, TRUE))
              => IF parts[1] \in Keys(GLOBAL_COURSES)
                 THEN /\ Len(GLOBAL_COURSES') = Len(GLOBAL_COURSES)
                      /\ \A i \in 1..Len(GLOBAL_COURSES) :
                            /\ GLOBAL_COURSES'[i].key = GLOBAL_COURSES[i].key
                            /\ GLOBAL_COURSES[i].key # parts[1]
                                  => GLOBAL_COURSES'[i] = GLOBAL_COURSES[i]
                 ELSE /\ GLOBAL_COURSES' = GLOBAL_COURSES
                      /\ out' = <<Msg(ADMIN_ID, "not_found", <<>>,
                                      <<parts[1]>>)>>]_vars

\* the first of two courses was edited
C3_Witness ==
    /\ Len(GLOBAL_COURSES) = 2
    /\ out = <<Msg(ADMIN_ID, "updated", <<>>, <<GLOBAL_COURSES[1].key>>)>>
    /\ GLOBAL_COURSES[1].name # GLOBAL_COURSES[1].key

\* C4: delete_course on a present key removes exactly that entry and leaves
\* every other entry as it was; on an absent key it leaves the catalog
\* unchanged and reports failure to the admin.  The key is the handler's
\* course_key, the argument in lower case.
C4_DeleteCourse ==
    [][\A args \in DelArgs(GLOBAL_COURSES) :
          (Len(args) = 1 /\ delete_course(ADMIN_ID, args, TRUE))
              => LET course_key == Lower(args[1])
                 IN  IF course_key \in Keys(GLOBAL_COURSES)
                     THEN GLOBAL_COURSES' =
                            SelectSeq(GLOBAL_COURSES,
                                      LAMBDA it : it.key # course_key)
                     ELSE /\ GLOBAL_COURSES' = GLOBAL_COURSES
                          /\ out' = <<Msg(ADMIN_ID, "not_found", <<>>,
                                          <<course_key>>)>>]_vars

\* the first of two courses was deleted and the second is left
C4_Witness ==
    /\ out = <<Msg(ADMIN_ID, "deleted", <<>>, << <<"x", "_", "x">> >>)>>
    /\ Keys(GLOBAL_COURSES) = {<<"x", "_", "x", "_", "1">>}

BadAdd(parts) ==
    \/ Len(parts) # 3
    \/ Len(parts) = 3 /\ (parts[2] \in BadPrices \/ parts[3] \in BadStatuses)

BadEdit(parts) ==
    \/ Len(parts) # 4
    \/ Len(parts) = 4 /\ \/ parts[1] \notin Keys(GLOBAL_COURSES)
                         \/ parts[3] \in BadPrices
                         \/ parts[4] \in BadStatuses

BadDel(args) == Len(args) = 1 /\ Lower(args[1]) \notin Keys(GLOBAL_COURSES)

Rejected ==
    /\ GLOBAL_COURSES' = GLOBAL_COURSES
    /\ coursesFile' = coursesFile
    /\ Len(out') = 1 /\ out'[1].to = ADMIN_ID /\ out'[1].kind \in Failures

\* C10: an add_course or edit_course with a status outside {available,
\* coming_soon}, a negative or non-integer price or the wrong number of
\* fields, and an edit_course or delete_course with an unknown key, leaves
\* the catalog in memory and the catalog file unchanged and answers the
\* admin with an error message, not a confirmation.
C10_ValidationErrors ==
    [][/\ \A parts \in AddParts(CatalogNames) :
            (BadAdd(parts) /\ add_course(ADMIN_ID, parts, TRUE)) => Rejected
       /\ \A parts \in EditParts(GLOBAL_COURSES) :
            (BadEdit(parts) /\ edit_course(ADMIN_ID, parts, TRUE)) => Rejected
       /\ \A args \in DelArgs(GLOBAL_COURSES) :
            (BadDel(args) /\ delete_course(ADMIN_ID, args, TRUE)) => Rejected
      ]_vars

\* a bad price was refused while the catalog held a course
C10_Witness ==
    /\ out = Reply(ADMIN_ID, "invalid_price")
    /\ GLOBAL_COURSES # <<>>
    /\ coursesFile = GLOBAL_COURSES

----------------------------------------------------------------------------
(* Every user at the admin's commands, the storage failing at times *)

Writes == BOOLEAN
Strangers == {13}
AuthNames == {<<"Ann">>}
AuthTexts == {<<"news">>}
AuthOriginals == {adminChat.text, <<"see ", "(ID: ", "1", "3", ")">>}

AuthAdd == <<<<"X">>, <<"1", "0">>, <<"available">> >>
AuthEdit == <<<<"X">>, <<"1", "0">>, <<"COMING_SOON">> >>

\* the commands of one user
Commands(u) ==
    \/ admin_panel(u)
    \/ list_courses(u)
    \/ \E w \in Writes : add_course(u, AuthAdd, w)
    \/ \E k \in Keys(GLOBAL_COURSES) : edit_course(u, <<k>> \o AuthEdit, TRUE)
    \/ \E k \in Keys(GLOBAL_COURSES) : delete_course(u, <<k>>, TRUE)
    \/ show_stats(u)
    \/ \E t \in AuthTexts : broadcast(u, t)

NextAuth ==
    \/ \E u \in {ADMIN_ID} \cup Strangers : start(u, TRUE)
    \/ \E u \in {ADMIN_ID} \cup Strangers : Commands(u)
    \/ \E u \in Strangers, f \in AuthNames, r \in BOOLEAN, t \in UserTexts :
          UserReply(u, f, <<>>, r, t)
    \/ \E o \in AuthOriginals, t \in ReplyTexts : AdminReply(o, t)
    \/ \E d \in BOOLEAN : broadcast_send(d)
    \/ broadcast_finished

SpecAuth == Init /\ [][NextAuth]_vars

----------------------------------------------------------------------------
(* The statistics: every user starts and views, the admin reads them *)

NextStats ==
    \/ \E u \in Users : start(u, TRUE)
    \/ \E u \in Shoppers, k \in Keys(GLOBAL_COURSES) :
          CallbackQuery(u, k, TRUE)
    \/ show_stats(ADMIN_ID)
    \/ add_course(ADMIN_ID, AuthAdd, TRUE)
    \/ \E k \in Keys(GLOBAL_COURSES) : delete_course(ADMIN_ID, <<k>>, TRUE)

SpecStats == Init /\ [][NextStats]_vars

----------------------------------------------------------------------------
(* The catalog while writes of courses.json may fail *)

FailingWrite(w) ==
    \/ \E parts \in ShopFields : add_course(ADMIN_ID, parts, w)
    \/ \E k \in Keys(GLOBAL_COURSES), f \in ShopFields :
          edit_course(ADMIN_ID, <<k>> \o f, w)
    \/ \E k \in Keys(GLOBAL_COURSES) : delete_course(ADMIN_ID, <<k>>, w)

NextFault ==
    \/ \E w \in Writes : FailingWrite(w)
    \/ list_courses(ADMIN_ID)
    \/ \E u \in Shoppers : start(u, TRUE)

SpecFault == Init /\ [][NextFault]_vars

----------------------------------------------------------------------------
(* The handlers of the conversation one at a time: each handler of
   SELECTING_ACTION applied to the callback data of its own pattern, whatever
   the order main() registers them in *)

Handler(u, data, w) ==
    /\ ~bc.active
    /\ Started(u)
    /\ conv[u] = SELECTING_ACTION
    /\ IF action_pattern(data) THEN handle_action(u, data)
       ELSE IF menu_pattern(data) THEN main_menu(u)
       ELSE course_pattern(data) /\ course_selection_callback(u, data, w)

HandlerNames == {<<"Ann">>, <<"(ID: ", "2", ")">>}

\* the admin stocks the catalog meanwhile
Stock ==
    \/ \E parts \in ShopFields : add_course(ADMIN_ID, parts, TRUE)
    \/ \E k \in Keys(GLOBAL_COURSES) : delete_course(ADMIN_ID, <<k>>, TRUE)

NextHandlers ==
    \/ \E u \in Shoppers : start(u, TRUE)
    \/ \E u \in Shoppers, data \in Buttons : Handler(u, data, TRUE)
    \/ \E u \in Shoppers, f \in HandlerNames, t \in UserTexts :
          TextMessage(u, f, <<>>, t)
    \/ \E u \in Shoppers, f \in HandlerNames : PhotoMessage(u, f, <<>>)
    \/ Stock

SpecHandlers == Init /\ [][NextHandlers]_vars

----------------------------------------------------------------------------
(* The messages of a user in every state of the conversation *)

AwaitData == {<<"x">>, talk_admin, share_screenshot}

\* what a user may send that is no course button: the updates the awaiting
\* states have no handler for, and the replies
Payload(u) ==
    \/ \E f \in HandlerNames, t \in UserTexts : TextMessage(u, f, <<>>, t)
    \/ \E f \in HandlerNames : PhotoMessage(u, f, <<>>)
    \/ help_command(u)
    \/ \E t \in AuthTexts : broadcast(u, t)
    \/ \E data \in AwaitData :
          conv[u] # SELECTING_ACTION /\ CallbackQuery(u, data, TRUE)
    \/ \E f \in HandlerNames, r \in BOOLEAN, t \in UserTexts :
          UserReply(u, f, <<>>, r, t)

NextMessages ==
    \/ \E u \in Shoppers, w \in Writes : start(u, w)
    \/ add_course(ADMIN_ID, AuthAdd, TRUE)
    \/ \E u \in Shoppers, data \in AwaitData : Handler(u, data, TRUE)
    \/ \E u \in Shoppers : Payload(u)
    \/ \E o \in AuthOriginals, t \in ReplyTexts : AdminReply(o, t)

SpecMessages == Init /\ [][NextMessages]_vars

----------------------------------------------------------------------------
(* Two users in the conversation at once, their updates interleaved *)

PairFields ==
    {<<<<"X">>, <<"1", "0">>, <<"available">> >>,
     <<<<"x", " ", "1">>, <<"1", "0">>, <<"available">> >>}
PairData == {<<"x">>, <<"x", "_", "1">>, talk_admin, share_screenshot}
PairNames == {<<"Ann">>}

\* an update of user u
Event(u) ==
    \/ start(u, TRUE)
    \/ \E data \in PairData : Handler(u, data, TRUE)
    \/ \E f \in PairNames, t \in UserTexts : TextMessage(u, f, <<>>, t)
    \/ \E f \in PairNames : PhotoMessage(u, f, <<>>)

NextPair ==
    \/ \E u \in Customers : Event(u)
    \/ \E parts \in PairFields : add_course(ADMIN_ID, parts, TRUE)

SpecPair == Init /\ [][NextPair]_vars

----------------------------------------------------------------------------
(* The admin naming courses: the keys add_course makes of the names *)

KeyNames == {<<"Talk", " ", "Admin">>, <<"buy", " ", "course">>,
             <<"_", "X", "_">>, <<"!">>}

NextKeys ==
    \/ \E n \in KeyNames, s \in GoodStatuses :
          add_course(ADMIN_ID, <<n, <<"1", "0">>, s>>, TRUE)
    \/ \E k \in Keys(GLOBAL_COURSES) : delete_course(ADMIN_ID, <<k>>, TRUE)
    \/ list_courses(ADMIN_ID)

SpecKeys == Init /\ [][NextKeys]_vars

----------------------------------------------------------------------------
(* Properties of the conversation, checked under Spec *)

\* C1: once a user has started and selected an available course (state
\* SELECTING_ACTION, selected_course set), pressing "Talk to Admin" moves the
\* conversation to FORWARD_TO_ADMIN; a text the user then sends reaches the
\* admin in a message with "(ID: <the user's id>)" and the text, and the
\* conversation is back in SELECTING_ACTION; the admin's reply to that message
\* reaches that same user as an "Admin replied" message.
C1_TalkToAdminFlow ==
    [][/\ \A u \in Users :
            ( /\ conv[u] = SELECTING_ACTION
              /\ user_data[u].kind # "none"
              /\ Selected(user_data[u], GLOBAL_COURSES).status = <<"available">>
              /\ CallbackQuery(u, talk_admin, TRUE) )
                => conv'[u] = FORWARD_TO_ADMIN
       /\ \A u \in Users, f \in FirstNames, l \in LastNames, t \in UserTexts :
            (conv[u] = FORWARD_TO_ADMIN /\ TextMessage(u, f, l, t))
                => /\ conv'[u] = SELECTING_ACTION
                   /\ adminChat'.from = u
                   /\ \E i \in 1..Len(adminChat'.text) :
                         SubSeq(adminChat'.text, i, i + 1 + Len(Str(u)))
                            = <<"(ID: ">> \o Str(u) \o <<")">>
                   /\ SubSeq(adminChat'.text,
                             Len(adminChat'.text) - Len(t) + 1,
                             Len(adminChat'.text)) = t
       /\ \A t \in ReplyTexts :
            (adminChat.kind = "text" /\ AdminReply(adminChat.text, t))
                => \E i \in 1..Len(out') :
                      out'[i] = Msg(adminChat.from, "admin_replied", t, <<>>)
      ]_vars

AllKeys == {<<"x">>, <<"x", "_", "1">>, <<"x", "_", "2">>}

\* C6: a course-detail view (course_selection_callback on a key of the
\* catalog, available or coming soon) adds exactly 1 to course_views[key] and
\* leaves the counter of every other key as it was, and no operation (a
\* reload of the statistics and the deletion of a course among them) ever
\* lowers a counter.
C6_CourseViews ==
    [][/\ \A u \in Users, k \in Keys(GLOBAL_COURSES) :
            course_selection_callback(u, k, TRUE)
                => /\ Views(BOT_STATS', k) = Views(BOT_STATS, k) + 1
                   /\ \A o \in (AllKeys \cup DOMAIN BOT_STATS.course_views
                                    \cup DOMAIN BOT_STATS'.course_views)
                                \ {k} :
                         Views(BOT_STATS', o) = Views(BOT_STATS, o)
       /\ \A k \in AllKeys \cup DOMAIN BOT_STATS.course_views :
            Views(BOT_STATS', k) >= Views(BOT_STATS, k)
      ]_vars

\* the statistics were reloaded while a course that had been viewed twice,
\* one that is coming soon, was deleted, and another course has its view
C6_Witness ==
    /\ out = Reply(ADMIN_ID, "stats_text")
    /\ \E k \in DOMAIN BOT_STATS.course_views :
          k \notin Keys(GLOBAL_COURSES) /\ BOT_STATS.course_views[k] = 2
    /\ \E k \in Keys(GLOBAL_COURSES) :
          /\ Views(BOT_STATS, k) = 1
          /\ Lookup(GLOBAL_COURSES, k).status = <<"coming_soon">>

----------------------------------------------------------------------------
(* Properties of the relay, checked under SpecRelay *)

\* the ids of the well-formed markers "(ID: <digits>)" or "(ID: `<digits>`)"
\* in a text
MarkerIds(text) ==
    {ParseInt(Remove(Before(SubSeq(text, i + 1, Len(text)), ")"), BQ)).val :
        i \in {j \in 1..Len(text) :
                 /\ text[j] = "(ID: "
                 /\ ")" \in Range(SubSeq(text, j + 1, Len(text)))
                 /\ Remove(Before(SubSeq(text, j + 1, Len(text)), ")"), BQ)
                        # <<>>
                 /\ Range(Remove(Before(SubSeq(text, j + 1, Len(text)), ")"),
                                 BQ)) \subseteq DigitSet}}

DeliveredTo(id, t) ==
    out' = <<Msg(id, "admin_replied", t, <<>>),
             Msg(ADMIN_ID, "reply_sent", <<>>, <<>>)>>

NothingDelivered ==
    /\ \A i \in 1..Len(out') : out'[i].to = ADMIN_ID
    /\ gotReply' = gotReply

\* C7: when the admin replies to a message whose text or caption contains
\* "(ID: <digits>)", reply_to_user takes those digits for the user id and
\* delivers the reply there (Telegram refusing a user who never started);
\* when the text has no such pattern, an error is reported to the admin
\* and no message goes to any user.
C7_ReplyCorrelation ==
    [][\A o \in Originals, t \in ReplyTexts :
          AdminReply(o, t)
              => IF MarkerIds(o) # {}
                 THEN \E id \in MarkerIds(o) :
                         IF id \in Users /\ Started(id)
                         THEN DeliveredTo(id, t)
                         ELSE out' = error_handler /\ NothingDelivered
                 ELSE /\ out' \in {Reply(ADMIN_ID, "action_failed"),
                                   Reply(ADMIN_ID, "no_valid_user_id")}
                      /\ NothingDelivered]_vars

\* C8: whatever the names and the text of the user, the id reply_to_user
\* parses out of a message the bot sent to the admin on a user's behalf is
\* that user's id, and the admin's reply to it goes to that user and to no
\* other.
C8_MarkerUnspoofable ==
    [][\A t \in ReplyTexts :
          (adminChat.kind # "none" /\ AdminReply(adminChat.text, t))
              => /\ ParseInt(user_id_str(adminChat.text))
                        = [ok |-> TRUE, val |-> adminChat.from]
                 /\ DeliveredTo(adminChat.from, t)]_vars

----------------------------------------------------------------------------
(* Properties of the roster and the broadcast, checked under SpecRoster *)

NoDuplicates(s) == \A i, j \in 1..Len(s) : s[i] = s[j] => i = j

\* C5: whatever the sequence of starts, a user id that starts twice or more
\* is in the roster exactly once, and total_users is incremented for it once
\* at most: the first start appends the id and adds 1, a later start changes
\* neither the roster nor total_users.
C5_RosterIdempotent ==
    [][\A u \in Users :
          start(u, TRUE)
              => /\ NoDuplicates(userFile')
                 /\ Cardinality({i \in 1..Len(userFile') :
                                    userFile'[i] = Str(u)}) = 1
                 /\ IF Str(u) \in Range(userFile)
                    THEN /\ userFile' = userFile
                         /\ BOT_STATS'.total_users = BOT_STATS.total_users
                    ELSE /\ userFile' = Append(userFile, Str(u))
                         /\ BOT_STATS'.total_users
                               = BOT_STATS.total_users + 1]_vars

\* the user who was the first to start has just started again
C5_Witness ==
    /\ Len(userFile) = 3
    /\ BOT_STATS.total_users = 3
    /\ out # <<>> /\ out[1].kind = "welcome"
    /\ Str(out[1].to) = userFile[1]

SentIn(attempts) == Cardinality({i \in 1..Len(attempts) : attempts[i].sent})

\* C9: whatever the roster and whichever deliveries fail, the broadcast tries
\* every entry of the roster once, in the order of the roster, goes on after
\* a failure, and reports sent = the deliveries that succeeded and failed =
\* those that failed, which add up to the size of the roster.
C9_BroadcastSweep ==
    [][broadcast_finished
          => LET sent == SentIn(bc.attempts)
                 failed == Len(bc.attempts) - sent
             IN  /\ [i \in 1..Len(bc.attempts) |-> bc.attempts[i].user_id]
                        = userFile
                 /\ [i \in 1..Len(out) |-> Str(out[i].to)]
                        = [i \in 1..sent |->
                              SelectSeq(bc.attempts,
                                        LAMBDA a : a.sent)[i].user_id]
                 /\ out' = <<Msg(ADMIN_ID, "broadcast_finished",
                                 Str(sent) \o <<"/">> \o Str(failed), <<>>)>>
                 /\ sent + failed = Len(userFile)]_vars

\* a roster of three, one delivery failed: sent 2, failed 1
C9_Witness ==
    /\ Len(userFile) = 3
    /\ out = <<Msg(ADMIN_ID, "broadcast_finished", <<"2", "/", "1">>, <<>>)>>

----------------------------------------------------------------------------
(* Properties of the authorization, checked under SpecAuth *)

\* an event of user u at the admin's commands or at the reply path
AdminPath(u) ==
    \/ Commands(u)
    \/ \E f \in AuthNames, r \in BOOLEAN, t \in UserTexts :
          UserReply(u, f, <<>>, r, t)

\* C11: an event of a user whose id is not the admin's that invokes list,
\* add, edit or delete course, stats, the admin help, broadcast or the reply
\* path changes neither the catalog nor its file, starts no broadcast and
\* delivers no broadcast and no "Admin replied" message to any user.
C11_AdminAuthorization ==
    [][\A u \in Users \ {ADMIN_ID} :
          AdminPath(u)
              => /\ GLOBAL_COURSES' = GLOBAL_COURSES
                 /\ coursesFile' = coursesFile
                 /\ bc' = bc
                 /\ gotReply' = gotReply
                 /\ \A i \in 1..Len(out') :
                       out'[i].kind \notin {"broadcast", "admin_replied"}
      ]_vars

\* a user who had a reply from the admin is refused a command while the
\* catalog in memory is not the one of the file and the roster has two ids
C11_Witness ==
    /\ \E u \in Strangers :
          out = Reply(u, "not_authorized") /\ u \in gotReply
    /\ GLOBAL_COURSES # coursesFile
    /\ GLOBAL_COURSES # <<>>
    /\ Len(userFile) = 2

----------------------------------------------------------------------------
(* Properties of the handlers, checked under SpecHandlers *)

ConversationStates ==
    {NoConversation, SELECTING_ACTION, FORWARD_TO_ADMIN, FORWARD_SCREENSHOT,
     END}

\* C12: from every conversation state of a user (none yet, SELECTING_ACTION,
\* FORWARD_TO_ADMIN, FORWARD_SCREENSHOT, ended), a start command puts the
\* user's conversation in SELECTING_ACTION and answers with one message that
\* has exactly one button per entry of the catalog, in the catalog's order.
C12_StartFromAnyState ==
    [][\A u \in Users, c \in ConversationStates :
          (conv[u] = c /\ start(u, TRUE))
              => /\ conv'[u] = SELECTING_ACTION
                 /\ Len(out') = 1
                 /\ out'[1].to = u
                 /\ out'[1].kind = "welcome"
                 /\ Len(out'[1].buttons) = Len(GLOBAL_COURSES)
                 /\ \A i \in 1..Len(GLOBAL_COURSES) :
                       out'[1].buttons[i] = GLOBAL_COURSES[i].key]_vars

\* a start after a whole conversation: a screenshot went to the admin, the
\* course it was about has left the catalog, and the menu has the two
\* courses of the catalog, one of them coming soon
C12_Witness ==
    \E u \in Shoppers :
        /\ Len(GLOBAL_COURSES) = 2
        /\ out = <<Msg(u, "welcome", <<>>,
                       <<GLOBAL_COURSES[1].key, GLOBAL_COURSES[2].key>>)>>
        /\ \E i \in 1..2 : GLOBAL_COURSES[i].status = <<"coming_soon">>
        /\ adminChat.kind = "photo"
        /\ user_data[u].kind = "val"

\* C14: when handle_action handles talk_admin, buy_course or share_screenshot
\* for a user whose session has no selected_course, the conversation ends
\* (ConversationHandler.END) with the prompt to start over, nothing goes to
\* the admin, and the conversation enters neither FORWARD_TO_ADMIN nor
\* FORWARD_SCREENSHOT; with selected_course set, talk_admin moves the
\* conversation to FORWARD_TO_ADMIN.
C14_MissingSessionAbort ==
    [][\A u \in Users, a \in {talk_admin, buy_course, share_screenshot} :
          handle_action(u, a)
              => IF user_data[u].kind = "none"
                 THEN /\ conv'[u] = END
                      /\ out' = Reply(u, "start_over")
                      /\ adminChat' = adminChat
                 ELSE a = talk_admin => conv'[u] = FORWARD_TO_ADMIN]_vars

\* the conversation of a user ended at an action without a selected course,
\* while the catalog has a course
C14_Witness ==
    \E u \in Shoppers :
        /\ conv[u] = END
        /\ out = Reply(u, "start_over")
        /\ user_data[u] = NoSelection
        /\ GLOBAL_COURSES # <<>>

Contains(text, sub) ==
    \E i \in 1..(Len(text) - Len(sub) + 1) :
        SubSeq(text, i, i + Len(sub) - 1) = sub

ToAdmin(msgs) == SelectSeq(msgs, LAMBDA m : m.to = ADMIN_ID)

----------------------------------------------------------------------------
(* Further properties of the conversation, checked under Spec *)

\* C13: right after a start command is handled for a user, in whatever state
\* the conversation was, the user's session has no selected_course, so that
\* a course chosen before the restart is not in the messages forwarded after
\* it.
C13_StartResetsSession ==
    [][\A u \in Users : start(u, TRUE) => user_data'[u] = NoSelection]_vars


\* C15: in SELECTING_ACTION, with a course view on display, a press of the
\* button "Back to Courses" (callback data main_menu), dispatched through the
\* handlers in the order main() registers them, shows the whole catalog as
\* a list of buttons again and leaves the conversation in SELECTING_ACTION.
C15_BackToCourses ==
    [][\A u \in Users :
          ( /\ conv[u] = SELECTING_ACTION
            /\ out # <<>>
            /\ out[1].kind \in {"course_details", "launching_soon"}
            /\ out[1].to = u
            /\ CallbackQuery(u, main_menu_data, TRUE) )
              => /\ out' = <<Msg(u, "select_course", <<>>,
                                 [i \in 1..Len(GLOBAL_COURSES) |->
                                     GLOBAL_COURSES[i].key])>>
                 /\ conv'[u] = SELECTING_ACTION]_vars


\* C17: when a button pressed in SELECTING_ACTION carries a course key that
\* is not in the catalog any more (deleted since the menu was shown), the
\* conversation stays in SELECTING_ACTION, no message is edited or sent, the
\* session's selected_course is as before, no view counter changes and
\* nothing goes to the admin.
C17_StaleButton ==
    [][\A u \in Users, k \in AllKeys :
          ( /\ conv[u] = SELECTING_ACTION
            /\ k \notin Keys(GLOBAL_COURSES)
            /\ CallbackQuery(u, k, TRUE) )
              => /\ conv'[u] = SELECTING_ACTION
                 /\ out' = <<>>
                 /\ user_data' = user_data
                 /\ BOT_STATS' = BOT_STATS
                 /\ statsFile' = statsFile
                 /\ adminChat' = adminChat]_vars

\* nothing was shown at the last press, while the course the user selected
\* and viewed has left the catalog
C17_Witness ==
    \E u \in Shoppers :
        /\ conv[u] = SELECTING_ACTION
        /\ out = <<>>
        /\ user_data[u].kind = "val"
        /\ \E k \in DOMAIN BOT_STATS.course_views :
              k \notin Keys(GLOBAL_COURSES)
        /\ GLOBAL_COURSES # <<>>

----------------------------------------------------------------------------
(* Properties of the statistics, checked under SpecStats *)

\* C18: from an empty roster and total_users = 0, after any sequence of
\* starts, course views, /stats and catalog commands, total_users is the
\* number of distinct user ids in the roster, in memory and in the file of
\* the statistics, and total_users never decreases.
C18_TotalUsers ==
    /\ BOT_STATS.total_users = Cardinality(Range(userFile))
    /\ [][/\ BOT_STATS'.total_users = Cardinality(Range(userFile'))
          /\ statsFile'.total_users = BOT_STATS'.total_users
          /\ BOT_STATS'.total_users >= BOT_STATS.total_users]_vars

\* three users in the roster, a course that was viewed has been deleted and
\* the admin has just read the statistics
C18_Witness ==
    /\ BOT_STATS.total_users = 3
    /\ Len(userFile) = 3
    /\ out = Reply(ADMIN_ID, "stats_text")
    /\ GLOBAL_COURSES = <<>>
    /\ \E k \in DOMAIN BOT_STATS.course_views : BOT_STATS.course_views[k] >= 1

----------------------------------------------------------------------------
(* Properties of the persistence, checked under SpecFault *)

Success(msgs) ==
    msgs # <<>> /\ msgs[1].kind \in {"added", "updated", "deleted"}

\* C19: add_course, edit_course and delete_course write the whole catalog
\* after they changed it in memory and before they confirm: a step that
\* sends a confirmation leaves the file equal to the catalog in memory, a
\* write that fails sends none, and once they are equal they stay equal as
\* long as no write fails.
C19_PersistBeforeReply ==
    [][/\ Success(out') => coursesFile' = GLOBAL_COURSES'
       /\ FailingWrite(FALSE) => ~Success(out') /\ out' = error_handler
       /\ FailingWrite(TRUE) => Success(out')
       /\ (coursesFile = GLOBAL_COURSES /\ out' # error_handler)
             => coursesFile' = GLOBAL_COURSES']_vars

\* a confirmed deletion after a write that had failed: the file had fallen
\* behind, and holds the catalog of the memory again
C19_Witness ==
    /\ Success(out) /\ out[1].kind = "deleted"
    /\ Len(GLOBAL_COURSES) = 1
    /\ GLOBAL_COURSES[1].key = <<"x", "_", "1">>
    /\ coursesFile = GLOBAL_COURSES

\* C20: when the write of the catalog file fails in add_course, edit_course
\* or delete_course, the catalog in memory has the change and the file has
\* the catalog of before, and the change stays in memory, where the menus
\* and the later commands, list courses among them, see it, until a write
\* succeeds.
C20_FailureDivergence ==
    [][/\ FailingWrite(FALSE) => coursesFile' = coursesFile
       /\ \A parts \in ShopFields :
             add_course(ADMIN_ID, parts, FALSE)
                => /\ Len(GLOBAL_COURSES') = Len(GLOBAL_COURSES) + 1
                   /\ GLOBAL_COURSES'[Len(GLOBAL_COURSES')].name = parts[1]
       /\ \A k \in Keys(GLOBAL_COURSES) :
             delete_course(ADMIN_ID, <<k>>, FALSE)
                => k \notin Keys(GLOBAL_COURSES')
       /\ \A u \in Shoppers :
             (GLOBAL_COURSES # coursesFile /\ start(u, TRUE))
                => /\ GLOBAL_COURSES' = GLOBAL_COURSES
                   /\ out'[1].buttons = Keyboard(GLOBAL_COURSES)
       /\ (GLOBAL_COURSES # coursesFile /\ list_courses(ADMIN_ID))
             => /\ GLOBAL_COURSES' = GLOBAL_COURSES
                /\ GLOBAL_COURSES # <<>>
                      => out' = <<Msg(ADMIN_ID, "courses_info", <<>>,
                                      Keyboard(GLOBAL_COURSES))>>]_vars

----------------------------------------------------------------------------
(* Properties of the messages, checked under SpecMessages *)

\* C21: when a user who is not the admin, in any state of the conversation
\* (none, SELECTING_ACTION, FORWARD_TO_ADMIN, FORWARD_SCREENSHOT, ended),
\* replies with a text to a message of the bot that has "Admin replied:",
\* exactly one message goes to the admin, with "(ID: <the user's id>)" and
\* the text of the reply, whether or not the user selected a course or
\* pressed "Talk to Admin" before.
C21_FollowUpRouting ==
    [][\A u \in Users \ {ADMIN_ID}, c \in ConversationStates,
          f \in HandlerNames, t \in UserTexts :
          (conv[u] = c /\ UserReply(u, f, <<>>, TRUE, t))
              => /\ Len(ToAdmin(out')) = 1
                 /\ Contains(ToAdmin(out')[1].text,
                             <<"(ID: ">> \o Str(u) \o <<")">>)
                 /\ Contains(ToAdmin(out')[1].text, t)
                 /\ adminChat' = Fwd(adminChat'.kind, ToAdmin(out')[1].text, u)
      ]_vars

\* a follow-up went to the admin while the conversation of its user, who
\* never selected a course, had ended
C21_Witness ==
    \E u \in Shoppers :
        /\ conv[u] = END
        /\ user_data[u] = NoSelection
        /\ adminChat.kind = "followup" /\ adminChat.from = u
        /\ out # <<>> /\ out[1] = Msg(ADMIN_ID, "followup", adminChat.text, <<>>)

\* what a message the state has no handler for leaves alone
Untouched(u) ==
    /\ ToAdmin(out') = <<>>
    /\ adminChat' = adminChat
    /\ conv'[u] = conv[u]
    /\ user_data'[u] = user_data[u]

Unhandled(u) ==
    \/ help_command(u)
    \/ \E t \in AuthTexts : broadcast(u, t)
    \/ \E data \in AwaitData : CallbackQuery(u, data, TRUE)

----------------------------------------------------------------------------
(* Properties of two conversations, checked under SpecPair *)

\* C22: however the updates of two users interleave, an update of one user
\* changes neither the state of the other's conversation nor the course the
\* other's session has selected; a course button sets the selection of the
\* user who pressed it; and every message forwarded to the admin has the id
\* of the user who sent the text or the photo, with the name of the course
\* that user's session has selected.
C22_SessionIsolation ==
    [][/\ \A u \in Customers :
            (conv'[u] # conv[u] \/ user_data'[u] # user_data[u])
                => \A v \in Customers \ {u} : ~Event(v)
       /\ \A u \in Customers, k \in Keys(GLOBAL_COURSES) :
            Handler(u, k, TRUE)
                => Selected(user_data'[u], GLOBAL_COURSES')
                       = Lookup(GLOBAL_COURSES, k)
       /\ \A u \in Customers :
            ( /\ conv[u] \in {FORWARD_TO_ADMIN, FORWARD_SCREENSHOT}
              /\ \/ \E f \in PairNames, t \in UserTexts :
                       TextMessage(u, f, <<>>, t)
                 \/ \E f \in PairNames : PhotoMessage(u, f, <<>>)
              /\ conv'[u] # conv[u] )
                => /\ Len(ToAdmin(out')) = 1
                   /\ adminChat'.from = u
                   /\ \/ Contains(ToAdmin(out')[1].text,
                                  <<"(ID: ">> \o Str(u) \o <<")">>)
                      \/ Contains(ToAdmin(out')[1].text,
                                  <<"(ID: ", BQ>> \o Str(u) \o <<BQ, ")">>)
                   /\ \/ Contains(ToAdmin(out')[1].text,
                                  <<"\nRegarding course: ">>
                                     \o Selected(user_data[u],
                                                 GLOBAL_COURSES).name
                                     \o <<"\n\nMessage:\n">>)
                      \/ Contains(ToAdmin(out')[1].text,
                                  <<"\nFor course: **">>
                                     \o Selected(user_data[u],
                                                 GLOBAL_COURSES).name
                                     \o <<"**\n\nReply to this message">>)
      ]_vars

\* the text of one user went to the admin with that user's course, while
\* the other user, who selected the other course, is about to send a photo
C22_Witness ==
    \E u \in Customers, v \in Customers :
        /\ u # v
        /\ user_data[u] = Ref(<<"x">>)
        /\ user_data[v] = Ref(<<"x", "_", "1">>)
        /\ Lookup(GLOBAL_COURSES, <<"x">>).name = <<"X">>
        /\ Lookup(GLOBAL_COURSES, <<"x", "_", "1">>).name = <<"x", " ", "1">>
        /\ conv[v] = FORWARD_SCREENSHOT
        /\ adminChat.kind = "text" /\ adminChat.from = u
        /\ Contains(adminChat.text, <<"(ID: ">> \o Str(u) \o <<")">>)
        /\ Contains(adminChat.text, <<"\nRegarding course: ", "X">>)

----------------------------------------------------------------------------
(* Properties of the selection against the catalog, checked under Spec *)

\* C23: in every reachable state, a session that has selected_course set
\* holds a course that is an entry of the in-memory catalog, with the same
\* name, price and status, also after the admin edited or deleted courses or
\* reloaded the catalog with list courses.
C23_SelectedCourseValid ==
    \A u \in DOMAIN user_data :
        user_data[u].kind # "none"
            => \E i \in 1..Len(GLOBAL_COURSES) :
                  Course(GLOBAL_COURSES[i].name, GLOBAL_COURSES[i].price,
                         GLOBAL_COURSES[i].status)
                      = Selected(user_data[u], GLOBAL_COURSES)

----------------------------------------------------------------------------
(* Properties of the generated keys, checked under SpecKeys *)

\* C24: the key add_course generates for an accepted name is non-empty, does
\* not start with an underscore and is none of the reserved callback
\* identifiers talk_admin, buy_course, share_screenshot and main_menu.
C24_KeysNotReserved ==
    \A k \in Keys(GLOBAL_COURSES) :
        /\ k # <<>>
        /\ k[1] # "_"
        /\ k \notin {talk_admin, buy_course, share_screenshot, main_menu_data}

====
